---- MODULE Spec2Model ----
(***************************************************************************)
(* A model of backend.py: the /chat request pipeline (create_chat_message, *)
(* get_response, load_memory_to_pass, add_session_history), the MongoDB    *)
(* collection "chat-history" it shares between requests, and /uploadFile   *)
(* (upload_to_s3) with the S3 object store.                                *)
(*                                                                         *)
(* Text is modelled as a sequence of atoms: "a/b.pdf" is <<"a","/","b",    *)
(* ".pdf">>, so that split("/")[-1] and endswith(".pdf") are computed on   *)
(* the value and not assumed.  A payload is a record that has a field only *)
(* when the request body carries it.                                       *)
(***************************************************************************)
EXTENDS Naturals, Sequences, FiniteSets, TLC

\* ---------------------------------------------------------------- bounds

\* The number of /chat requests a behaviour receives, overlapping or not.
MaxReqs == 2

\* The number of /chat requests that follow once those have been answered.
MaxFollowUps == 1

\* The number of /uploadFile requests a behaviour receives.
MaxUploads == 1

\* ------------------------------------------------------------ input sets

\* Session identifiers a client makes up itself or holds from earlier runs.
ClientSids == {<<"client", 1>>}

\* user_input values; "" is the empty question.
Questions == {"", "q1"}

\* The answer the generative backend produces.
Answers == {"a1"}

\* Document bodies.
Bodies == {"B1", "B2"}

\* File names and paths a client sends.
PdfName == <<"c", ".pdf">>

DocxName == <<"c", ".docx">>

TxtName == <<"n", ".txt">>

EmptyName == <<>>

ClientPath == <<"dir", "/", "c", ".pdf">>

\* ------------------------------------------------------ program constants

\* The bucket and prefix get_response downloads from.
DownloadBucket == "openaitestawsbucket"

DownloadPrefix == <<"coverletter", "/">>

\* The (S3_BUCKET, S3_PATH) values the environment may configure.
Configs ==
    { [bucket |-> "openaitestawsbucket", path |-> <<"coverletter", "/">>],
      [bucket |-> "uploadbucket", path |-> <<"docs", "/">>] }

\* conversationcol.create_index([("session_id")], unique=True)
UniqueSessionIndex == TRUE

\* ----------------------------------------------------------- text helpers

Max(S) == CHOOSE x \in S : \A y \in S : y <= x

\* s.split("/")[-1]
LastSegment(s) ==
    LET slashes == {i \in 1..Len(s) : s[i] = "/"}
    IN  IF slashes = {} THEN s ELSE SubSeq(s, Max(slashes) + 1, Len(s))

\* s.endswith(ext)
EndsWith(s, ext) == Len(s) > 0 /\ s[Len(s)] = ext

\* f"s3://{bucket}/{path}{filename}"
S3Uri(bucket, path, filename) ==
    <<"s3:", "/", "/", bucket, "/">> \o path \o filename

\* The object an s3:// URI names: the bucket is the segment after "s3://", the
\* key is everything after the next "/".
S3Location(uri) == [bucket |-> uri[4], key |-> SubSeq(uri, 6, Len(uri))]

\* ---------------------------------------------------------------- state

VARIABLES
    S3_BUCKET,        \* os.getenv("S3_BUCKET")
    S3_PATH,          \* os.getenv("S3_PATH")
    objects,          \* the object store: a set of [bucket, key, body]
    conversationcol,  \* the collection: a sequence of [session_id, conversation]
    reqs,             \* the /chat requests received so far, each with its position
    uploads,          \* the /uploadFile requests handled so far, with their responses
    minted,           \* how many identifiers get_session has produced
    appended,         \* history variable: the Turns written, in the order written
    overlap           \* history variable: a request arrived while another was handled

vars ==
    <<S3_BUCKET, S3_PATH, objects, conversationcol, reqs, uploads, minted, appended,
      overlap>>

\* --------------------------------------------------------- object store

ObjectsAt(loc) == {o \in objects : o.bucket = loc.bucket /\ o.key = loc.key}

\* put_object: the object under (bucket, key) is replaced.
PutObject(loc, body) ==
    (objects \ ObjectsAt(loc)) \cup {[bucket |-> loc.bucket, key |-> loc.key, body |-> body]}

\* path=f"s3://openaitestawsbucket/coverletter/{file_name}"
DownloadLocation(file_name) ==
    S3Location(S3Uri(DownloadBucket, DownloadPrefix, file_name))

\* Key=f"{S3_PATH}{filename}" in Bucket=S3_BUCKET
UploadLocation(filename) == [bucket |-> S3_BUCKET, key |-> S3_PATH \o filename]

\* ------------------------------------------------------------ collection

\* The positions of the records with this session_id.
Matching(col, sid) == {i \in 1..Len(col) : col[i].session_id = sid}

\* find_one({"session_id": sid}): the first matching record, or None.
FindOne(col, sid) ==
    IF Matching(col, sid) = {}
    THEN [found |-> FALSE, conversation |-> <<>>]
    ELSE [found |-> TRUE,
          conversation |-> col[CHOOSE i \in Matching(col, sid) :
                                 \A j \in Matching(col, sid) : i <= j].conversation]

\* insert_one raises DuplicateKeyError when the unique index already holds the key.
InsertRejectedNoIndex(col, sid) == FALSE

InsertRejected(col, sid) == UniqueSessionIndex /\ Matching(col, sid) /= {}

InsertOne(col, sid, values) ==
    Append(col, [session_id |-> sid, conversation |-> values])

\* update_one({"session_id": sid}, {"$set": {"conversation": conversation}}):
\* the first matching record is rewritten; nothing happens when none matches.
UpdateOne(col, sid, conversation) ==
    IF Matching(col, sid) = {}
    THEN col
    ELSE LET first == CHOOSE i \in Matching(col, sid) :
                         \A j \in Matching(col, sid) : i <= j
         IN  [col EXCEPT ![first].conversation = conversation]

\* new_values=[payload.get("user_input"), response["answer"]]
NewValuesAnswerOnly(question, answer) == <<answer>>

NewValues(question, answer) == <<question, answer>>

\* conversation.extend(new_values)
ExtendInFront(conversation, values) == values \o conversation

Extend(conversation, values) == conversation \o values

\* load_memory_to_pass: for x in range(0, len(data), 2): (data[x], data[x + 1]);
\* data[x + 1] past the end raises IndexError.
RECURSIVE PairsFrom(_, _)
PairsFrom(data, x) ==
    IF x > Len(data)
    THEN <<>>
    ELSE <<(<<data[x], data[x + 1]>>)>> \o PairsFrom(data, x + 2)

PairUp(data) ==
    IF Len(data) % 2 = 1
    THEN [error |-> TRUE, history |-> <<>>]
    ELSE [error |-> FALSE, history |-> PairsFrom(data, 1)]

LoadMemoryToPass(col, sid) ==
    IF FindOne(col, sid).found
    THEN PairUp(FindOne(col, sid).conversation)
    ELSE [error |-> FALSE, history |-> <<>>]

\* ------------------------------------------------------------- requests

\* session_id before create_chat_message has settled it.
NoSession == <<>>

\* ChatMessageSent: user_input and data_source are required strings,
\* session_id defaults to None.
Valid(chats) == {"user_input", "data_source"} \subseteq DOMAIN chats

NewRequest(chats, pc, sid) ==
    [pc |-> pc, chats |-> chats, session_id |-> sid,
     fetched |-> {}, history |-> <<>>, answer |-> "",
     found |-> [found |-> FALSE, conversation |-> <<>>],
     after |-> Len(uploads),   \* history variable: the uploads answered before it arrived
     written |-> <<>>,         \* history variable: the Turns written when the history was read
     trace |-> <<pc>>,         \* history variable: the positions passed
     calls |-> {},             \* history variable: the external calls made
     fault |-> FALSE,          \* history variable: an external service failed
     wrote |-> FALSE]          \* history variable: the request wrote to the collection

Running == 1..Len(reqs)

At(r, pc) == r \in Running /\ reqs[r].pc = pc

\* The request moves to pc having made the call named (if any).
Moved(req, pc, call) ==
    [req EXCEPT !.pc = pc, !.trace = Append(@, pc), !.calls = @ \cup call]

\* The handler returns or raises: its locals end with it.
Returned(req, pc, call) ==
    [Moved(req, pc, call) EXCEPT !.history = <<>>, !.answer = "", !.written = <<>>,
                                 !.found = [found |-> FALSE, conversation |-> <<>>]]

\* The Turns written for a session so far, in the order written.
TurnsWritten(sid) ==
    LET mine == SelectSeq(appended, LAMBDA e : e.session_id = sid)
    IN  [i \in 1..Len(mine) |-> mine[i].turn]

\* The identifiers responses have handed to clients.
ReturnedSids == {reqs[r].session_id : r \in {x \in Running : reqs[x].pc = "DONE"}}

KnownSids == ClientSids \cup ReturnedSids

\* The file paths /uploadFile has returned.
ReturnedPaths == {uploads[i].file_path : i \in {x \in 1..Len(uploads) : uploads[x].ok}}

DataSources == {PdfName, TxtName, EmptyName} \cup ReturnedPaths

\* Request bodies: the usual one, and each way of departing from it.
UsualBody == [user_input |-> "q1", data_source |-> PdfName]

ValidBodies ==
    {[user_input |-> "q1", data_source |-> d] : d \in DataSources}
        \cup {[user_input |-> "", data_source |-> DocxName]}

InvalidBodies ==
    {[user_input |-> q] : q \in Questions} \cup {[data_source |-> PdfName]}

\* get_session: uuid4 gives an identifier nobody holds yet.
GetSession == <<"uuid", minted + 1>>

\* What the next step of a request at pc calls, for the steps that call out.
NextCall ==
    [RECEIVED |-> "object_store", DOWNLOADED |-> "extraction",
     DOCUMENT_READY |-> "embedding", INDEXED |-> "store_read",
     HISTORY_LOADED |-> "generation", GENERATED |-> "store_read",
     APPEND_READ |-> "store_write"]

\* if file_name.endswith(".pdf") ... elif file_name.endswith(".docx") ... else raise
LoaderOfAnyFile(file_name) == "PyPDFLoader"

Loader(file_name) ==
    IF EndsWith(file_name, ".pdf") THEN "PyPDFLoader"
    ELSE IF EndsWith(file_name, ".docx") THEN "Docx2txtLoader"
    ELSE "ValueError"

FileName(req) == LastSegment(req.chats.data_source)

\* ---------------------------------------------------------------- Init

\* The documents the download bucket holds when the service starts.
StoredDocuments ==
    {[bucket |-> DownloadBucket, key |-> DownloadPrefix \o n, body |-> "B0"] :
        n \in {PdfName, DocxName, TxtName}}

\* The collection outlives the process: it starts empty, or holding what earlier
\* runs wrote, here one session with one Turn.
EarlierSession == <<"client", 1>>

EarlierTurn == <<"q1", "a0">>

EarlierRuns ==
    { <<>>, <<[session_id |-> EarlierSession, turn |-> EarlierTurn, request |-> 0]>> }

InitConfigured(c) ==
    /\ S3_BUCKET = c.bucket
    /\ S3_PATH = c.path
    /\ objects = StoredDocuments
    /\ appended \in EarlierRuns
    /\ conversationcol =
           [i \in 1..Len(appended) |->
               [session_id |-> appended[i].session_id,
                conversation |-> NewValues(appended[i].turn[1], appended[i].turn[2])]]
    /\ reqs = <<>>
    /\ uploads = <<>>
    /\ minted = 0
    /\ overlap = FALSE

\* The deployment the download path is written for: uploads go where /chat reads.
Init == InitConfigured([bucket |-> DownloadBucket, path |-> DownloadPrefix])

\* Any configured bucket and path prefix.
InitAnyConfig == \E c \in Configs : InitConfigured(c)

\* ------------------------------------------------------------- /chat

Unchanged_S3 == UNCHANGED <<S3_BUCKET, S3_PATH, objects, uploads>>

\* Every request received so far has been answered.
Ended == \A r \in Running : reqs[r].pc \in {"DONE", "FAILED", "REJECTED"}

Arrived == overlap' = (overlap \/ ~Ended)

\* The body fails ChatMessageSent's validation: the handler never runs.
Reject(chats) ==
    /\ ~Valid(chats)
    /\ reqs' = Append(reqs, NewRequest(chats, "REJECTED", NoSession))
    /\ Arrived
    /\ UNCHANGED <<conversationcol, minted, appended>>
    /\ Unchanged_S3

\* if chats.session_id is None: session_id = get_session()
ReceiveNew(chats) ==
    /\ Valid(chats)
    /\ "session_id" \notin DOMAIN chats
    /\ reqs' = Append(reqs, NewRequest(chats, "RECEIVED", GetSession))
    /\ minted' = minted + 1
    /\ Arrived
    /\ UNCHANGED <<conversationcol, appended>>
    /\ Unchanged_S3

\* else: session_id = str(chats.session_id)
ReceiveExisting(chats) ==
    /\ Valid(chats)
    /\ "session_id" \in DOMAIN chats
    /\ reqs' = Append(reqs, NewRequest(chats, "RECEIVED", chats.session_id))
    /\ Arrived
    /\ UNCHANGED <<conversationcol, minted, appended>>
    /\ Unchanged_S3

\* A step that only moves one request.
Step(r, req) ==
    /\ reqs' = [reqs EXCEPT ![r] = req]
    /\ UNCHANGED <<conversationcol, minted, appended, overlap>>
    /\ Unchanged_S3

\* wr.s3.download(path=f"s3://openaitestawsbucket/coverletter/{file_name}", ...)
Download(r) ==
    /\ At(r, "RECEIVED")
    /\ LET loc == DownloadLocation(FileName(reqs[r]))
       IN  IF ObjectsAt(loc) = {}
           THEN Step(r, Returned(reqs[r], "FAILED", {"object_store"}))
           ELSE Step(r, [Moved(reqs[r], "DOWNLOADED", {"object_store"})
                            EXCEPT !.fetched = {loc}])

\* The else branch of the format dispatch: raise ValueError.
UnsupportedFormat(r) ==
    /\ At(r, "DOWNLOADED")
    /\ Loader(FileName(reqs[r])) = "ValueError"
    /\ Step(r, Returned(reqs[r], "FAILED", {}))

\* loader.load() and text_splitter.split_documents(data)
LoadDocument(r) ==
    /\ At(r, "DOWNLOADED")
    /\ Loader(FileName(reqs[r])) /= "ValueError"
    /\ Step(r, Moved(reqs[r], "DOCUMENT_READY", {"extraction"}))

\* FAISS.from_documents(all_splits, embeddings)
BuildIndex(r) ==
    /\ At(r, "DOCUMENT_READY")
    /\ Step(r, Moved(reqs[r], "INDEXED", {"embedding"}))

\* "chat_history": load_memory_to_pass(session_id=session_id)
LoadHistory(r) ==
    /\ At(r, "INDEXED")
    /\ LET loaded == LoadMemoryToPass(conversationcol, reqs[r].session_id)
       IN  IF loaded.error
           THEN Step(r, Returned(reqs[r], "FAILED", {"store_read"}))
           ELSE Step(r, [Moved(reqs[r], "HISTORY_LOADED", {"store_read"})
                            EXCEPT !.history = loaded.history,
                                   !.written = TurnsWritten(reqs[r].session_id)])

\* answer = qa_chain.invoke({"question": query, "chat_history": ...}): one call of
\* the handler, in which the chain condenses the question with the history, has
\* the retriever select chunks for it and has the generative call answer.
Invoke(r, answer) ==
    /\ At(r, "HISTORY_LOADED")
    /\ Step(r, [Moved(Moved(Moved(reqs[r],
                                  "QUERY_CONTEXTUALIZED", {"generation"}),
                            "RETRIEVED", {"embedding"}),
                      "GENERATED", {"generation"})
                   EXCEPT !.answer = answer])

\* add_session_history: document = conversationcol.find_one({"session_id": session_id})
AppendFind(r) ==
    /\ At(r, "GENERATED")
    /\ Step(r, [Moved(reqs[r], "APPEND_READ", {"store_read"})
                   EXCEPT !.found = FindOne(conversationcol, reqs[r].session_id)])

Turn(req) == <<req.chats.user_input, req.answer>>

Persisted(r) ==
    /\ reqs' = [reqs EXCEPT ![r] = [Moved(reqs[r], "PERSISTED", {"store_write"})
                                       EXCEPT !.wrote = TRUE]]
    /\ appended' = Append(appended, [session_id |-> reqs[r].session_id,
                                     turn |-> Turn(reqs[r]), request |-> r])
    /\ UNCHANGED <<minted, overlap>>
    /\ Unchanged_S3

\* if document: conversation.extend(new_values); conversationcol.update_one(...)
AppendUpdate(r) ==
    /\ At(r, "APPEND_READ")
    /\ reqs[r].found.found
    /\ conversationcol' =
           UpdateOne(conversationcol, reqs[r].session_id,
                     Extend(reqs[r].found.conversation,
                            NewValues(reqs[r].chats.user_input, reqs[r].answer)))
    /\ Persisted(r)

\* else: conversationcol.insert_one(...)
AppendInsert(r) ==
    /\ At(r, "APPEND_READ")
    /\ ~reqs[r].found.found
    /\ ~InsertRejected(conversationcol, reqs[r].session_id)
    /\ conversationcol' =
           InsertOne(conversationcol, reqs[r].session_id,
                     NewValues(reqs[r].chats.user_input, reqs[r].answer))
    /\ Persisted(r)

\* insert_one raises DuplicateKeyError: the request fails.
AppendDuplicate(r) ==
    /\ At(r, "APPEND_READ")
    /\ ~reqs[r].found.found
    /\ InsertRejected(conversationcol, reqs[r].session_id)
    /\ Step(r, Returned(reqs[r], "FAILED", {"store_write"}))

\* The response returned with the append left out.
RespondBeforeAppend(r) ==
    /\ At(r, "GENERATED")
    /\ Step(r, Returned(reqs[r], "DONE", {}))

\* return JSONResponse(content={"response": response, "session_id": ...})
Respond(r) ==
    /\ At(r, "PERSISTED")
    /\ Step(r, Returned(reqs[r], "DONE", {}))

\* An external call raises: except Exception -> HTTPException.
ExternalFailure(r) ==
    /\ r \in Running
    /\ reqs[r].pc \in DOMAIN NextCall
    /\ Step(r, [Returned(reqs[r], "FAILED", {NextCall[reqs[r].pc]}) EXCEPT !.fault = TRUE])

\* --------------------------------------------------------- /uploadFile

Unchanged_Chat ==
    UNCHANGED <<S3_BUCKET, S3_PATH, conversationcol, reqs, minted, appended, overlap>>

\* filename = data_file.filename.split("/")[-1]; put_object(...); the response
\* names s3://{S3_BUCKET}/{S3_PATH}{filename}.
Upload(given, body) ==
    /\ Len(uploads) < MaxUploads
    /\ objects' = PutObject(UploadLocation(LastSegment(given)), body)
    /\ uploads' = Append(uploads,
                         [given |-> given, filename |-> LastSegment(given),
                          file_path |-> S3Uri(S3_BUCKET, S3_PATH, LastSegment(given)),
                          body |-> body, ok |-> TRUE])
    /\ Unchanged_Chat

\* put_object raises: HTTPException(status_code=500).
UploadFailure(given, body) ==
    /\ Len(uploads) < MaxUploads
    /\ uploads' = Append(uploads,
                         [given |-> given, filename |-> LastSegment(given),
                          file_path |-> <<>>, body |-> body, ok |-> FALSE])
    /\ UNCHANGED objects
    /\ Unchanged_Chat

UploadNames == {PdfName, ClientPath}

\* ------------------------------------------------------- specifications

WithSession(body, sid) == [session_id |-> sid] @@ body

Handle ==
    \/ \E r \in Running : Download(r)
    \/ \E r \in Running : UnsupportedFormat(r)
    \/ \E r \in Running : LoadDocument(r)
    \/ \E r \in Running : BuildIndex(r)
    \/ \E r \in Running : LoadHistory(r)
    \/ \E r \in Running, a \in Answers : Invoke(r, a)
    \/ \E r \in Running : AppendFind(r)
    \/ \E r \in Running : AppendUpdate(r)
    \/ \E r \in Running : AppendInsert(r)
    \/ \E r \in Running : AppendDuplicate(r)
    \/ \E r \in Running : Respond(r)
    \/ \E r \in Running : ExternalFailure(r)

Arrive ==
    \/ \E b \in InvalidBodies : Reject(b)
    \/ \E b \in ValidBodies : ReceiveNew(b)
    \/ \E s \in KnownSids : ReceiveExisting(WithSession(UsualBody, s))

UploadFile ==
    \/ \E f \in UploadNames, b \in Bodies : Upload(f, b)
    \/ \E f \in UploadNames, b \in Bodies : UploadFailure(f, b)

\* Requests are served concurrently: any request may take its next step.
Next == (Len(reqs) < MaxReqs /\ Arrive) \/ Handle

Spec == Init /\ [][Next]_vars

\* The same, and then requests that arrive when all before them are answered.
NextFollowUp ==
    \/ Len(reqs) < MaxReqs /\ Arrive
    \/ MaxReqs <= Len(reqs) /\ Len(reqs) < MaxReqs + MaxFollowUps /\ Ended /\ Arrive
    \/ Handle

SpecFollowUp == Init /\ [][NextFollowUp]_vars

\* Uploads and the /chat requests around them, under any configuration.
NextUpload == (Len(reqs) < MaxReqs /\ Arrive) \/ Handle \/ UploadFile

SpecUpload == InitAnyConfig /\ [][NextUpload]_vars

\* ---------------------------------------------------------------- claims

\* Every session identifier in use, and one that never is.
FreshSid == <<"client", 0>>

Sids == ClientSids \cup {FreshSid} \cup {reqs[r].session_id : r \in Running}

Conversation(sid) == FindOne(conversationcol, sid).conversation

Passed(r, pc) == \E i \in 1..Len(reqs[r].trace) : reqs[r].trace[i] = pc

\* The position a request was at before its last step.
Before(r) ==
    IF Len(reqs[r].trace) < 2 THEN "" ELSE reqs[r].trace[Len(reqs[r].trace) - 1]

\* The appends on a session that have returned or raised, store outages aside.
AppendsEnded(sid) ==
    {r \in Running :
        /\ reqs[r].session_id = sid
        /\ \/ reqs[r].pc \in {"PERSISTED", "DONE"}
           \/ reqs[r].pc = "FAILED" /\ Before(r) = "APPEND_READ" /\ ~reqs[r].fault}

\* The Turns a session held before the appends.
TurnsBefore(sid) ==
    {i \in 1..Len(appended) : appended[i].session_id = sid /\ appended[i].request = 0}

AppendRunning(sid) ==
    \E r \in Running : reqs[r].session_id = sid /\ reqs[r].pc = "APPEND_READ"

\* C1: once the appends on a session have all finished, the session's history
\* holds one Turn for each of them: no append is dropped and none fails.
C1_NoAppendLost ==
    \A sid \in Sids :
        ~AppendRunning(sid) =>
            Len(Conversation(sid))
                = 2 * (Cardinality(TurnsBefore(sid)) + Cardinality(AppendsEnded(sid)))

\* C2: in sequential use load returns the empty sequence for a session never
\* appended to, and otherwise exactly the Turns appended, in the order appended;
\* so does the history each request read.
C2_SequentialLoad ==
    ~overlap =>
        /\ \A sid \in Sids :
               LoadMemoryToPass(conversationcol, sid)
                   = [error |-> FALSE, history |-> TurnsWritten(sid)]
        /\ \A r \in Running :
               Passed(r, "HISTORY_LOADED") => reqs[r].history = reqs[r].written

C2_Witness ==
    /\ ~overlap
    /\ LoadMemoryToPass(conversationcol, FreshSid).history = <<>>
    /\ \E sid \in Sids :
           /\ Len(TurnsWritten(sid)) = 3
           /\ TurnsWritten(sid)[1] /= TurnsWritten(sid)[2]
           /\ \E r \in Running : reqs[r].pc = "PERSISTED" /\ Len(reqs[r].history) = 2

\* A file name whose extension is neither .pdf nor .docx.
Unsupported(file_name) ==
    ~EndsWith(file_name, ".pdf") /\ ~EndsWith(file_name, ".docx")

WroteNothing(r) ==
    /\ ~reqs[r].wrote
    /\ \A i \in 1..Len(appended) : appended[i].request /= r

\* C3: a request for a file that is neither .pdf nor .docx never gets past the
\* format dispatch and never succeeds, and a request that has failed, at
\* whatever step, has written nothing to the collection.
C3_FailureWritesNothing ==
    \A r \in Running :
        /\ (Valid(reqs[r].chats) /\ Unsupported(FileName(reqs[r])))
               => reqs[r].pc \in {"RECEIVED", "DOWNLOADED", "FAILED"}
        /\ reqs[r].pc = "FAILED" => WroteNothing(r)

C3_Witness ==
    /\ \E r \in Running :
           /\ Valid(reqs[r].chats)
           /\ Unsupported(FileName(reqs[r]))
           /\ reqs[r].pc = "FAILED" /\ Before(r) = "DOWNLOADED" /\ ~reqs[r].fault
    /\ \E r \in Running :
           /\ reqs[r].pc = "FAILED" /\ Before(r) = "APPEND_READ"
           /\ FindOne(conversationcol, reqs[r].session_id).found

Turns(col, sid) == LoadMemoryToPass(col, sid).history

\* C4: a request that succeeds returns a session identifier, the one it was
\* given if it was given one, and its write appends exactly its own Turn to that
\* session and changes no other session; a session it minted then holds exactly
\* that Turn.
C4_AppendsOneTurn ==
    [][\A r \in Running :
          (reqs[r].pc = "APPEND_READ" /\ reqs'[r].pc = "PERSISTED") =>
              /\ reqs[r].session_id /= NoSession
              /\ "session_id" \in DOMAIN reqs[r].chats
                     => reqs[r].session_id = reqs[r].chats.session_id
              /\ "session_id" \notin DOMAIN reqs[r].chats
                     => /\ ~FindOne(conversationcol, reqs[r].session_id).found
                        /\ Turns(conversationcol', reqs[r].session_id)
                               = <<Turn(reqs[r])>>
              /\ \A sid \in Sids :
                     Turns(conversationcol', sid)
                         = IF sid = reqs[r].session_id
                           THEN Append(Turns(conversationcol, sid), Turn(reqs[r]))
                           ELSE Turns(conversationcol, sid)]_vars

\* C5: the history a request hands to the chain is the sequence of Turns that
\* the requests on its session had written when it read the store.
C5_HistoryIsWrittenTurns ==
    \A r \in Running :
        Passed(r, "HISTORY_LOADED") => reqs[r].history = reqs[r].written

\* The successful uploads a request could know of: answered before it arrived,
\* and named by its data_source (the file name or the returned path).
UploadsNamed(r) ==
    {i \in 1..Len(uploads) :
        /\ i <= reqs[r].after
        /\ uploads[i].ok
        /\ reqs[r].chats.data_source
               \in {uploads[i].given, uploads[i].filename, uploads[i].file_path}}

\* The last successful upload to each returned path.
LastUploads ==
    {i \in 1..Len(uploads) :
        /\ uploads[i].ok
        /\ \A j \in 1..Len(uploads) :
               (j > i /\ uploads[j].ok) => uploads[j].file_path /= uploads[i].file_path}

\* C6: what was uploaded is what the returned path holds, and a later /chat
\* request naming the upload reads its document from that same location,
\* whatever bucket and prefix are configured.
C6_UploadRoundTrip ==
    /\ \A i \in LastUploads :
           {o.body : o \in ObjectsAt(S3Location(uploads[i].file_path))}
               = {uploads[i].body}
    /\ \A r \in Running :
           (Valid(reqs[r].chats) /\ Passed(r, "DOWNLOADED")) =>
               \A i \in UploadsNamed(r) :
                   reqs[r].fetched = {S3Location(uploads[i].file_path)}

\* A body without a question or without a document reference.
Malformed(chats) ==
    \/ "user_input" \notin DOMAIN chats
    \/ "data_source" \notin DOMAIN chats
    \/ chats.user_input = ""
    \/ chats.data_source = <<>>

\* C7: a malformed request makes no external call, and is answered by the
\* rejection of its payload.
C7_MalformedRejected ==
    \A r \in Running :
        Malformed(reqs[r].chats) =>
            /\ reqs[r].calls = {}
            /\ reqs[r].pc \in {"DONE", "FAILED", "REJECTED"} => reqs[r].pc = "REJECTED"

Stages ==
    {"RECEIVED", "HISTORY_LOADED", "DOCUMENT_READY", "INDEXED",
     "QUERY_CONTEXTUALIZED", "RETRIEVED", "GENERATED", "PERSISTED", "DONE", "FAILED"}

\* The stages a request has passed; a rejected payload failed in RECEIVED.
StagesOf(req) ==
    IF req.pc = "REJECTED"
    THEN <<"RECEIVED", "FAILED">>
    ELSE SelectSeq(req.trace, LAMBDA pc : pc \in Stages)

\* run is the start of order, or the start of order and then FAILED.
Follows(run, order) ==
    /\ Len(run) >= 1
    /\ \/ /\ Len(run) <= Len(order)
          /\ run = SubSeq(order, 1, Len(run))
       \/ /\ Len(run) >= 2
          /\ Len(run) - 1 < Len(order)
          /\ run[Len(run)] = "FAILED"
          /\ SubSeq(run, 1, Len(run) - 1) = SubSeq(order, 1, Len(run) - 1)

StatedOrder ==
    <<"RECEIVED", "HISTORY_LOADED", "DOCUMENT_READY", "INDEXED",
      "QUERY_CONTEXTUALIZED", "RETRIEVED", "GENERATED", "PERSISTED", "DONE">>

HandlerOrder ==
    <<"RECEIVED", "DOCUMENT_READY", "INDEXED", "HISTORY_LOADED",
      "QUERY_CONTEXTUALIZED", "RETRIEVED", "GENERATED", "PERSISTED", "DONE">>

\* C8 as stated: every request passes RECEIVED, HISTORY_LOADED, DOCUMENT_READY,
\* INDEXED, QUERY_CONTEXTUALIZED, RETRIEVED, GENERATED, PERSISTED, DONE in this
\* order, or breaks off into FAILED.
C8_StatedOrder == \A r \in Running : Follows(StagesOf(reqs[r]), StatedOrder)

\* C8 as amended: every request passes RECEIVED, DOCUMENT_READY, INDEXED,
\* HISTORY_LOADED, QUERY_CONTEXTUALIZED, RETRIEVED, GENERATED, PERSISTED, DONE in
\* this order, each at most once and none skipped, or breaks off into FAILED:
\* the history is read after the document is indexed, the append follows the
\* generation and the response follows the append.
C8_HandlerOrder == \A r \in Running : Follows(StagesOf(reqs[r]), HandlerOrder)

C8_Witness ==
    /\ \E r \in Running : reqs[r].pc = "DONE" /\ StagesOf(reqs[r]) = HandlerOrder
    /\ \E r \in Running : reqs[r].pc = "FAILED" /\ Before(r) = "HISTORY_LOADED"

TurnsOf(sid) ==
    {appended[i].turn : i \in {x \in 1..Len(appended) : appended[x].session_id = sid}}

\* C10: every stored conversation has even length and holds, at each even
\* offset, a question followed by the answer given to it; reading it in pairs
\* never runs past its end.
C10_EvenPaired ==
    /\ \A i \in 1..Len(conversationcol) :
           LET c == conversationcol[i].conversation
           IN  /\ Len(c) % 2 = 0
               /\ \A k \in 1..Len(c) :
                      k % 2 = 1 =>
                          <<c[k], c[k + 1]>> \in TurnsOf(conversationcol[i].session_id)
               /\ ~PairUp(c).error
    /\ \A r \in Running :
           (reqs[r].pc = "FAILED" /\ Before(r) = "INDEXED") => reqs[r].fault

\* One append has overwritten another: the session holds two Turns of the three
\* written, which requests read in pairs before and which still pair up.
C10_Witness ==
    \E sid \in Sids :
        /\ Len(TurnsWritten(sid)) = 3
        /\ Len(Conversation(sid)) = 4
        /\ Len(LoadMemoryToPass(conversationcol, sid).history) = 2
        /\ \E r \in Running :
               /\ reqs[r].session_id = sid
               /\ reqs[r].pc = "PERSISTED"
               /\ Len(reqs[r].history) = 1

====
